---- MODULE Spec2Model ----
(***************************************************************************)
(* Model of bmtrain.optim.lamb.LambOptimizer: the overflow-gated,          *)
(* collectively normalised LAMB step, run by a group of workers that meet  *)
(* in NCCL all-reduces, and the loss-scale bookkeeping around it.          *)
(***************************************************************************)
EXTENDS Integers, Sequences, FiniteSets, TLC

(***************************************************************************)
(* Numbers.  A tensor element is a pair <<n, d>>: the rational n/d when    *)
(* d > 0 (kept in lowest terms), and an IEEE special value when d = 0:     *)
(* <<1,0>> is +inf, <<-1,0>> is -inf and <<0,0>> is NaN.                   *)
(***************************************************************************)
Abs(i) == IF i < 0 THEN -i ELSE i

Sgn(i) == IF i < 0 THEN -1 ELSE IF i > 0 THEN 1 ELSE 0

RECURSIVE Gcd(_, _)
Gcd(a, b) == IF b = 0 THEN a ELSE Gcd(b, a % b)

NaN == <<0, 0>>

Inf(s) == <<s, 0>>

Zero == <<0, 1>>

One == <<1, 1>>

\* n/d in lowest terms with a positive denominator; x/0 is inf or NaN
Rat(n, d) ==
    IF d = 0 THEN <<Sgn(n), 0>>
    ELSE LET g == Gcd(Abs(n), Abs(d))
         IN  <<Sgn(d) * (n \div g), Abs(d) \div g>>

IsFinite(x) == x[2] # 0

IsNaN(x) == x = NaN

RNeg(x) == <<-x[1], x[2]>>

RAdd(x, y) ==
    IF IsFinite(x) /\ IsFinite(y) THEN Rat(x[1] * y[2] + y[1] * x[2], x[2] * y[2])
    ELSE IF IsNaN(x) \/ IsNaN(y) THEN NaN
    ELSE IF IsFinite(x) THEN y
    ELSE IF IsFinite(y) THEN x
    ELSE IF x = y THEN x ELSE NaN

RSub(x, y) == RAdd(x, RNeg(y))

RMul(x, y) ==
    IF IsFinite(x) /\ IsFinite(y) THEN Rat(x[1] * y[1], x[2] * y[2])
    ELSE IF IsNaN(x) \/ IsNaN(y) THEN NaN
    ELSE IF x[1] = 0 \/ y[1] = 0 THEN NaN
    ELSE Inf(Sgn(x[1]) * Sgn(y[1]))

RDiv(x, y) ==
    IF IsFinite(x) /\ IsFinite(y) THEN Rat(x[1] * y[2], x[2] * y[1])
    ELSE IF IsNaN(x) \/ IsNaN(y) THEN NaN
    ELSE IF IsFinite(x) THEN Zero
    ELSE IF IsFinite(y) THEN Inf(x[1] * (IF y[1] < 0 THEN -1 ELSE 1))
    ELSE NaN

\* x > y, false when either is NaN
RGt(x, y) ==
    IF IsNaN(x) \/ IsNaN(y) THEN FALSE
    ELSE IF IsFinite(x) /\ IsFinite(y) THEN x[1] * y[2] > y[1] * x[2]
    ELSE IF IsFinite(x) THEN y[1] < 0
    ELSE IF IsFinite(y) THEN x[1] > 0
    ELSE x[1] > y[1]

\* x >= y, false when either is NaN
RGe(x, y) == (~IsNaN(x) /\ x = y) \/ RGt(x, y)

RECURSIVE IsqrtFrom(_, _)
IsqrtFrom(n, r) == IF (r + 1) * (r + 1) > n THEN r ELSE IsqrtFrom(n, r + 1)

Isqrt(n) == IsqrtFrom(n, 0)

\* resolution of single-precision results (grid 1/Fp32Res), and of
\* half-precision values (grid 1/HalfRes)
Fp32Res == 8

HalfRes == 2

\* rounding of a value to the grid 1/res (round down)
Quant(x, res) == IF IsFinite(x) THEN Rat((x[1] * res) \div x[2], res) ELSE x

Fp32(x) == Quant(x, Fp32Res)

Half(x) == Quant(x, HalfRes)

\* square root as a single-precision result
RSqrt(x) ==
    IF IsNaN(x) THEN NaN
    ELSE IF ~IsFinite(x) THEN (IF x[1] > 0 THEN x ELSE NaN)
    ELSE IF x[1] < 0 THEN NaN
    ELSE Rat(Isqrt((x[1] * Fp32Res * Fp32Res) \div x[2]), Fp32Res)

RECURSIVE RPow(_, _)
RPow(x, k) == IF k = 0 THEN One ELSE RMul(x, RPow(x, k - 1))

RECURSIVE SumSeq(_)
SumSeq(s) == IF s = <<>> THEN Zero ELSE RAdd(s[1], SumSeq(Tail(s)))

(***************************************************************************)
(* Python floats: binary floating point, every operation rounded to the    *)
(* nearest value with Precision significant bits, ties to the even one.    *)
(***************************************************************************)
Precision == 5

RECURSIVE Pow2(_)
Pow2(k) == IF k = 0 THEN 1 ELSE 2 * Pow2(k - 1)

\* the integer nearest to n/d (n >= 0, d > 0), ties to even
RoundEven(n, d) ==
    LET q == n \div d
        r == n % d
    IN  IF 2 * r < d THEN q
        ELSE IF 2 * r > d THEN q + 1
        ELSE IF q % 2 = 0 THEN q ELSE q + 1

\* n/d > 0 rounded to Precision significant bits
RECURSIVE FloatPos(_, _)
FloatPos(n, d) ==
    IF n >= Pow2(Precision) * d THEN RMul(Rat(2, 1), FloatPos(n, 2 * d))
    ELSE IF n < Pow2(Precision - 1) * d THEN RMul(Rat(1, 2), FloatPos(2 * n, d))
    ELSE Rat(RoundEven(n, d), 1)

Float(x) ==
    IF ~IsFinite(x) \/ x[1] = 0 THEN x
    ELSE IF x[1] > 0 THEN FloatPos(x[1], x[2])
    ELSE RNeg(FloatPos(-x[1], x[2]))


(***************************************************************************)
(* The optimizer's configuration and the shapes of its data.               *)
(***************************************************************************)
\* the parameters of the single param group, in the group's order
Params == 1 .. 2

\* every worker that can take part in a run
Workers == 1 .. 2

\* defaults of the group: lr, betas, eps, weight_decay (all in range)
defaults == [lr |-> One, betas |-> <<Rat(1, 2), Rat(1, 2)>>, eps |-> One,
             weight_decay |-> Zero]

\* the 1e-10 added to the reduced denominator, as the smallest step of the
\* model's single-precision grid
SafetyEps == Rat(1, Fp32Res * Fp32Res)

\* the working (half-precision) value every parameter starts with
InitParam == <<One, Rat(1, 2)>>

\* gradients: absent (p.grad is None), sparse, or a dense tensor
NoGrad == [kind |-> "none", val |-> <<Zero, Zero>>]

SparseGrad == [kind |-> "sparse", val |-> <<One, Zero>>]

Dense(t) == [kind |-> "dense", val |-> t]

\* the dense gradients of the model: two finite tensors, and for each
\* parameter one that has overflowed (an inf for the first, a NaN for the others)
TensorA == <<One, Zero>>

TensorB == <<Rat(1, 2), One>>

OverflowTensor(p) == IF p = 1 THEN <<One, Inf(1)>> ELSE <<NaN, One>>

\* state[p] before the lazy initialisation: len(state) = 0
EmptyState == [init |-> FALSE, step |-> 0, exp_avg |-> <<Zero, Zero>>,
               exp_avg_sq |-> <<Zero, Zero>>, param_fp32 |-> <<Zero, Zero>>]

(***************************************************************************)
(* The kernels.                                                            *)
(***************************************************************************)
\* G_adam.f_has_inf_nan(grad, flag): sets the flag when an element of grad
\* is inf or NaN, leaves it otherwise
f_has_inf_nan(g, flag) ==
    IF \E i \in DOMAIN g : ~IsFinite(g[i]) THEN 1 ELSE flag

\* momentum = beta1 * momentum + (1 - beta1) * gradient / scale
NewMomentum(m, g, beta1, scale) ==
    [i \in DOMAIN m |->
        RAdd(RMul(beta1, m[i]), RMul(RSub(One, beta1), RDiv(g[i], scale)))]

\* variance = beta2 * variance + (1 - beta2) * (gradient / scale)^2
NewVariance(v, g, beta2, scale) ==
    [i \in DOMAIN v |->
        RAdd(RMul(beta2, v[i]),
             RMul(RSub(One, beta2), RMul(RDiv(g[i], scale), RDiv(g[i], scale))))]

\* bias-corrected update direction, with weight decay applied to master
UpdateDirection(master, m, v, beta1, beta2, eps, weight_decay, step) ==
    LET bias1 == RSub(One, RPow(beta1, step))
        bias2 == RSub(One, RPow(beta2, step))
    IN  [i \in DOMAIN master |->
            Fp32(RAdd(RDiv(RDiv(m[i], bias1), RAdd(RSqrt(RDiv(v[i], bias2)), eps)),
                      RMul(weight_decay, master[i])))]

SumSquares(t) == SumSeq([i \in DOMAIN t |-> RMul(t[i], t[i])])

\* G.f_lamb_prepare: the local partial sums of one parameter
f_lamb_prepare(param_fp32, p, g, exp_avg, exp_avg_sq, beta1, beta2, eps, lr, scale, weight_decay, step) ==
    LET m == NewMomentum(exp_avg, g, beta1, scale)
        v == NewVariance(exp_avg_sq, g, beta2, scale)
        u == UpdateDirection(param_fp32, m, v, beta1, beta2, eps, weight_decay, step)
    IN  [numer |-> SumSquares(param_fp32), denom |-> SumSquares(u)]

\* G_adam.f_adam: writes momentum, variance, master and the working copy
f_adam(param_fp32, p, g, exp_avg, exp_avg_sq, beta1, beta2, eps, lr, scale, weight_decay, step) ==
    LET m == NewMomentum(exp_avg, g, beta1, scale)
        v == NewVariance(exp_avg_sq, g, beta2, scale)
        u == UpdateDirection(param_fp32, m, v, beta1, beta2, eps, weight_decay, step)
        master == [i \in DOMAIN param_fp32 |->
                      Fp32(RSub(param_fp32[i], RMul(lr, u[i])))]
    IN  [exp_avg |-> m, exp_avg_sq |-> v, param_fp32 |-> master,
         p |-> [i \in DOMAIN master |-> Half(master[i])]]

\* line 122: _lr * (numer / (denom + 1e-10)) ** 0.5
EffectiveLr(lr, numer, denom) ==
    RMul(lr, RSqrt(RDiv(numer, RAdd(denom, SafetyEps))))

(***************************************************************************)
(* State.                                                                  *)
(***************************************************************************)
VARIABLES
    group,       \* the workers of the run (one optimizer instance each)
    comm,        \* "comm" in config
    hold_steps,  \* self._hold_steps
    opt,         \* per worker: scale, steps_since_last_scale, state[p]
    param,       \* per worker: the working (half-precision) value of p
    grad,        \* per worker: p.grad
    frame,       \* per worker: where its step() call is, and its locals
    applied,     \* per worker and parameter: what its current/last step did
    fresh,       \* per worker: p.grad is of a backward pass not yet stepped on
    last,        \* per worker: the call that ended last and how it ended
    pre,         \* per worker: opt and param when its current/last step() began
    before,      \* per worker: opt and param when its last justify_scale() began
    ok_since,    \* per worker: steps that returned since the last justify_scale
    calls,       \* per worker: the number of calls made so far
    budget,      \* the number of calls a worker may make
    log,         \* per worker: the kernels and reductions of its current/last step
    ctor,        \* the call of __init__: its arguments, result and what it created
    sched        \* the NoDecay scheduler and the call made on it last

vars == <<group, comm, hold_steps, opt, param, grad, fresh, frame, applied, last,
          pre, before, ok_since, calls, budget, log, ctor, sched>>

\* bounds on the calls of a worker: alone, and in a group of all Workers
MaxSteps == 2

MaxRescales == 2

GroupMaxSteps == 1

\* bound on the calls of each kind that follow a call of __init__
InitMaxCalls == 1

\* the values the scale argument of __init__ and justify_scale is drawn from
ScaleArgs == <<One, Rat(2, 1), Zero>>

HoldArgs == {0, 1}

\* what a closure returns; "None" when step() is given no closure
ClosureArgs == {"None", "loss"}

\* what one backward pass leaves for a parameter: no gradient, a sparse
\* one, the same dense gradient on every worker, different dense gradients
\* (shards), or a gradient that has overflowed on one worker
GradPatterns(g) ==
    {[kind |-> k, at |-> 0] : k \in {"none", "sparse", "same"}}
        \cup {[kind |-> "shard", at |-> 0] : w \in g \ {1}}
        \cup {[kind |-> "ovf", at |-> w] : w \in g}

PatternGrad(pat, w, p) ==
    IF pat.kind = "none" THEN NoGrad
    ELSE IF pat.kind = "sparse" THEN SparseGrad
    ELSE IF pat.kind = "same" THEN Dense(TensorA)
    ELSE IF pat.kind = "shard" THEN Dense(IF w = 1 THEN TensorB ELSE TensorA)
    ELSE Dense(IF w = pat.at THEN OverflowTensor(p) ELSE TensorA)

\* the gradients one backward pass can leave: every worker has a gradient
\* for the same parameters, in the same layout
GradChoices(g) ==
    {[w \in g |-> [p \in Params |-> PatternGrad(pats[p], w, p)]] :
        pats \in [Params -> GradPatterns(g)]}

IdleFrame == [pc |-> "idle", i |-> 0, has_inf_or_nan |-> 0, numer |-> Zero,
              denom |-> Zero, lr |-> Zero, loss |-> "None"]

\* applied[p]: prepared (the loop reached p), done (f_adam ran), the candidate
\* lr, the local partial sums, the reduced sums and the effective lr
NotApplied == [prepared |-> FALSE, done |-> FALSE, lr |-> Zero, lnumer |-> Zero,
               ldenom |-> Zero, numer |-> Zero, denom |-> Zero, lr_eff |-> Zero]

\* last: the call, its result ("OK" or the exception), what it returned, the
\* overflow flag a step decided on, the argument of a justify_scale
NoCall == [op |-> "none", result |-> "none", ret |-> "None", flag |-> 0,
           arg |-> Zero]

\* the values the hyperparameters of __init__ are drawn from
LrArgs == {Rat(-1, 1), Zero, One}

EpsArgs == {Rat(-1, 1), Zero, One}

BetaArgs == {Rat(-1, 2), Zero, Rat(1, 2), One}

DecayArgs == {Rat(-1, 1), Zero, One}

\* what lines 24-29 give the optimizer
Attrs == {"defaults", "param_groups", "state", "load_stream", "_scale",
          "_steps_since_last_scale", "_hold_steps"}

\* a call of __init__ that has not begun: its arguments, and nothing created
NewCall(lr, betas, eps, weight_decay, scale, hold) ==
    [pc |-> "new", lr |-> lr, betas |-> betas, eps |-> eps,
     weight_decay |-> weight_decay, scale |-> scale, hold_steps |-> hold,
     result |-> "none", what |-> "none", value |-> Zero, attrs |-> {}]

\* a call of __init__ that has ended: its arguments are gone, and it leaves
\* the attributes it created or the exception with the value it names
Returned(result, what, value, attrs) ==
    [NewCall(Zero, <<Zero, Zero>>, Zero, Zero, Zero, 0)
        EXCEPT !.pc = "done", !.result = result, !.what = what, !.value = value,
               !.attrs = attrs]

\* the call of __init__ that made an optimizer of the configuration defaults
Built == Returned("OK", "none", Zero, Attrs)

\* the upper test of lines 16 and 18 made with <=
BetaInRange_Closed(b) == RGe(b, Zero) /\ RGe(One, b)

\* lines 16 and 18: 0.0 <= beta < 1.0
BetaInRange(b) == RGe(b, Zero) /\ RGt(One, b)

\* lines 12-21: the tests of __init__, in order; what names the test that
\* failed
Validate(a) ==
    IF ~RGe(a.lr, Zero) THEN Returned("ValueError", "lr", a.lr, {})
    ELSE IF ~RGe(a.eps, Zero) THEN Returned("ValueError", "eps", a.eps, {})
    ELSE IF ~BetaInRange(a.betas[1])
    THEN Returned("ValueError", "betas[0]", a.betas[1], {})
    ELSE IF ~BetaInRange(a.betas[2])
    THEN Returned("ValueError", "betas[1]", a.betas[2], {})
    ELSE IF ~RGe(a.weight_decay, Zero)
    THEN Returned("ValueError", "weight_decay", a.weight_decay, {})
    ELSE Returned("OK", "none", Zero, Attrs)

\* __init__ with valid lr, betas, eps and weight_decay
Construct(scale) ==
    [scale |-> scale, steps_since_last_scale |-> 0,
     state |-> [p \in Params |-> EmptyState]]

\* no scheduler has been made
NoSched == [pc |-> "none", start_lr |-> Zero, warmup_iter |-> 0, num_iter |-> 0,
            op |-> "none", lr |-> Zero]

\* bounds on warmup_iter and on the num_iter of a call
MaxWarmup == 7

MaxIter == 8

\* the base learning rates a scheduler is made with (floats)
StartLrArgs == {Zero, One, Rat(5, 4), Rat(3, 2)}

\* NoDecay.get_lr_warmpup: self.start_lr * num_iter / self.warmup_iter
get_lr_warmpup(start_lr, warmup_iter, num_iter) ==
    Float(RDiv(Float(RMul(start_lr, Rat(num_iter, 1))), Rat(warmup_iter, 1)))

\* NoDecay.get_lr_decay: self.start_lr
get_lr_decay(start_lr, warmup_iter, num_iter) == start_lr

\* no optimizer has been made and __init__ is not called
NoCtor == [Built EXCEPT !.pc = "none", !.result = "none", !.attrs = {}]

InitWith(g, c, b) ==
    /\ group = g
    /\ comm = c
    /\ budget = b
    /\ hold_steps \in HoldArgs
    /\ \E k \in DOMAIN ScaleArgs : opt = [w \in g |-> Construct(ScaleArgs[k])]
    /\ param = [w \in g |-> [p \in Params |-> InitParam]]
    /\ grad = [w \in g |-> [p \in Params |-> NoGrad]]
    /\ fresh = [w \in g |-> FALSE]
    /\ frame = [w \in g |-> IdleFrame]
    /\ applied = [w \in g |-> [p \in Params |-> NotApplied]]
    /\ last = [w \in g |-> NoCall]
    /\ pre = [w \in g |-> [opt |-> opt[w], param |-> param[w]]]
    /\ before = pre
    /\ ok_since = [w \in g |-> 0]
    /\ calls = [w \in g |-> [step |-> 0, justify |-> 0]]
    /\ log = [w \in g |-> <<>>]
    /\ ctor = Built
    /\ sched = NoSched

\* one process, with or without a communicator of its own
Init ==
    \/ InitWith({1}, TRUE, [step |-> MaxSteps, justify |-> MaxRescales])
    \/ InitWith({1}, FALSE, [step |-> MaxSteps, justify |-> MaxRescales])

\* a group of workers sharing a communicator
InitGroup ==
    InitWith(Workers, TRUE, [step |-> GroupMaxSteps, justify |-> 0])

\* no optimizer exists
NoOptimizer ==
    /\ group = {}
    /\ budget = [step |-> 0, justify |-> 0]
    /\ hold_steps = 0
    /\ opt = <<>>
    /\ param = <<>>
    /\ grad = <<>>
    /\ fresh = <<>>
    /\ frame = <<>>
    /\ applied = <<>>
    /\ last = <<>>
    /\ pre = <<>>
    /\ before = <<>>
    /\ ok_since = <<>>
    /\ calls = <<>>
    /\ log = <<>>

\* before __init__ is called: its arguments are drawn, no optimizer exists
InitNew ==
    /\ NoOptimizer
    /\ comm \in BOOLEAN
    /\ sched = NoSched
    /\ \E lr \in LrArgs, eps \in EpsArgs, b1 \in BetaArgs, b2 \in BetaArgs :
       \E wd \in DecayArgs, k \in DOMAIN ScaleArgs, hold \in HoldArgs :
          ctor = NewCall(lr, <<b1, b2>>, eps, wd, ScaleArgs[k], hold)

\* a NoDecay scheduler with its start_lr and warmup_iter, not yet called
InitSched ==
    /\ NoOptimizer
    /\ comm = FALSE
    /\ ctor = NoCtor
    /\ \E s \in StartLrArgs, n \in 1 .. MaxWarmup :
          sched = [NoSched EXCEPT !.pc = "made", !.start_lr = s, !.warmup_iter = n]

(***************************************************************************)
(* step(): the code between two points where the caller can be blocked.    *)
(* A context c carries the worker's opt, param, frame and applied, and the *)
(* result: "running", "OK" or the exception raised.                        *)
(***************************************************************************)
Ctx(w) == [opt |-> opt[w], param |-> param[w], frame |-> frame[w],
           applied |-> applied[w], result |-> "running"]

\* the None test of lines 69 and 83 left out
HasGrad_Always(g) == TRUE

\* p.grad is not None
HasGrad(g) == g.kind # "none"

\* p.grad.is_sparse
IsSparse(g) == g.kind = "sparse"

\* lines 66-70: the overflow flag of the worker's own gradients
RECURSIVE CheckFrom(_, _, _)
CheckFrom(gs, i, flag) ==
    IF i \notin Params THEN flag
    ELSE IF HasGrad(gs[i]) THEN CheckFrom(gs, i + 1, f_has_inf_nan(gs[i].val, flag))
    ELSE CheckFrom(gs, i + 1, flag)

\* the loop of lines 67-70 left after the first parameter
CheckOverflow_FirstOnly(gs) ==
    IF HasGrad(gs[1]) THEN f_has_inf_nan(gs[1].val, 0) ELSE 0

CheckOverflow(gs) == CheckFrom(gs, 1, 0)

\* the test of line 89 left out: the state is made anew in every step
LazyInit_Always(st, p) ==
    [init |-> TRUE, step |-> 0, exp_avg |-> [i \in DOMAIN p |-> Zero],
     exp_avg_sq |-> [i \in DOMAIN p |-> Zero], param_fp32 |-> p]

\* lines 89-97: lazy state initialisation
LazyInit(st, p) ==
    IF st.init THEN st
    ELSE [init |-> TRUE, step |-> 0, exp_avg |-> [i \in DOMAIN p |-> Zero],
          exp_avg_sq |-> [i \in DOMAIN p |-> Zero], param_fp32 |-> p]

\* line 104
CandidateLr(step, hold, lr) == IF step <= hold THEN Zero ELSE lr

\* lines 81-120: the update loop from parameter i up to its next allReduce
RECURSIVE UpdateFrom(_, _, _)
UpdateFrom(c, gs, i) ==
    IF i \notin Params THEN [c EXCEPT !.result = "OK"]
    ELSE IF ~HasGrad(gs[i]) THEN UpdateFrom(c, gs, i + 1)
    ELSE IF IsSparse(gs[i]) THEN [c EXCEPT !.result = "RuntimeError"]
    ELSE
        LET st0 == LazyInit(c.opt.state[i], c.param[i])
            st  == [st0 EXCEPT !.step = @ + 1]
            lr  == CandidateLr(st.step, hold_steps, defaults.lr)
            nd  == f_lamb_prepare(st.param_fp32, c.param[i], gs[i].val, st.exp_avg,
                                  st.exp_avg_sq, defaults.betas[1], defaults.betas[2],
                                  defaults.eps, lr, c.opt.scale,
                                  defaults.weight_decay, st.step)
            c1  == [c EXCEPT !.opt.state[i] = st,
                             !.applied[i] = [NotApplied EXCEPT !.prepared = TRUE,
                                 !.lr = lr, !.lnumer = nd.numer, !.ldenom = nd.denom],
                             !.frame.i = i, !.frame.lr = lr,
                             !.frame.numer = nd.numer, !.frame.denom = nd.denom]
        IN  IF comm THEN [c1 EXCEPT !.frame.pc = "numer"]
            ELSE [c1 EXCEPT !.result = "KeyError"]

\* line 75 made on the worker's own flag, not on the reduced one
AfterCheck_OwnFlag(c, gs) ==
    IF CheckOverflow(gs) > 0 THEN [c EXCEPT !.result = "OverflowError"]
    ELSE UpdateFrom([c EXCEPT !.opt.steps_since_last_scale = @ + 1], gs, 1)

\* line 78 moved above the test of line 75
AfterCheck_CountFirst(c, gs) ==
    LET c1 == [c EXCEPT !.opt.steps_since_last_scale = @ + 1]
    IN  IF c.frame.has_inf_or_nan > 0 THEN [c1 EXCEPT !.result = "OverflowError"]
        ELSE UpdateFrom(c1, gs, 1)

\* lines 75-78: the decision on the (reduced) flag, then the loop
AfterCheck(c, gs) ==
    IF c.frame.has_inf_or_nan > 0 THEN [c EXCEPT !.result = "OverflowError"]
    ELSE UpdateFrom([c EXCEPT !.opt.steps_since_last_scale = @ + 1], gs, 1)

\* the allReduce of line 73 left out
CheckPhase_Local(c, gs) == AfterCheck(c, gs)

\* lines 72-76: the flag is reduced over the group when there is one, and
\* decided on as it is otherwise
CheckPhase(c, gs) ==
    IF comm THEN [c EXCEPT !.frame.pc = "max"] ELSE AfterCheck(c, gs)

\* the allReduces of lines 120-121 left out
TrustRatio_Local(fr, ap) == [numer |-> ap.lnumer, denom |-> ap.ldenom]

\* lines 120-122: numer and denom hold the reduced sums when _lr is scaled
TrustRatio(fr, ap) == [numer |-> fr.numer, denom |-> fr.denom]

\* lines 122-136 for parameter frame.i, then the loop goes on
ApplyUpdate(c, gs) ==
    LET i   == c.frame.i
        st  == c.opt.state[i]
        tr  == TrustRatio(c.frame, c.applied[i])
        lr  == EffectiveLr(c.frame.lr, tr.numer, tr.denom)
        new == f_adam(st.param_fp32, c.param[i], gs[i].val, st.exp_avg,
                      st.exp_avg_sq, defaults.betas[1], defaults.betas[2],
                      defaults.eps, lr, c.opt.scale, defaults.weight_decay, st.step)
        c1  == [c EXCEPT !.opt.state[i].exp_avg = new.exp_avg,
                         !.opt.state[i].exp_avg_sq = new.exp_avg_sq,
                         !.opt.state[i].param_fp32 = new.param_fp32,
                         !.param[i] = new.p,
                         !.applied[i].done = TRUE,
                         !.applied[i].numer = c.frame.numer,
                         !.applied[i].denom = c.frame.denom,
                         !.applied[i].lr_eff = lr]
    IN  UpdateFrom(c1, gs, i + 1)

\* line 121 left out: the update is applied when numer has been reduced
AfterNumer_NoDenom(c, gs) == ApplyUpdate(c, gs)

\* line 121: the reduction of denom follows that of numer
AfterNumer(c, gs) == [c EXCEPT !.frame.pc = "denom"]

\* lines 105-136: the kernels run by a piece of step() that began with the
\* parameters in ap and ended in context c, in the order of the loop: f_adam
\* for a parameter it has applied, f_lamb_prepare for one it has prepared
RECURSIVE RanFrom(_, _, _)
RanFrom(ap, c, i) ==
    IF i \notin Params THEN <<>>
    ELSE (IF c.applied[i].done /\ ~ap[i].done
          THEN <<[op |-> "apply", p |-> i]>> ELSE <<>>)
         \o (IF c.applied[i].prepared /\ ~ap[i].prepared
             THEN <<[op |-> "prepare", p |-> i]>> ELSE <<>>)
         \o RanFrom(ap, c, i + 1)

Ran(ap, c) == RanFrom(ap, c, 1)

\* the worker's variables after a piece of step() that ended in context c
Commit(w, c) ==
    /\ opt' = [opt EXCEPT ![w] = c.opt]
    /\ param' = [param EXCEPT ![w] = c.param]
    /\ applied' = [applied EXCEPT ![w] = c.applied]
    /\ IF c.result = "running"
       THEN /\ frame' = [frame EXCEPT ![w] = c.frame]
            /\ UNCHANGED <<last, ok_since>>
       ELSE /\ frame' = [frame EXCEPT ![w] = IdleFrame]
            /\ last' = [last EXCEPT ![w] =
                   [op |-> "step", result |-> c.result,
                    ret |-> IF c.result = "OK" THEN c.frame.loss ELSE "None",
                    flag |-> c.frame.has_inf_or_nan, arg |-> Zero]]
            /\ ok_since' = [ok_since EXCEPT ![w] =
                   IF c.result = "OK" THEN @ + 1 ELSE @]

(***************************************************************************)
(* Actions.                                                                *)
(***************************************************************************)
\* the backward pass of one iteration leaves every worker its gradients
Backward ==
    /\ \A w \in group : frame[w].pc = "idle"
    /\ \E w \in group : calls[w].step < budget.step
    /\ \A w \in group : ~fresh[w]
    /\ \E gs \in GradChoices(group) : grad' = gs
    /\ fresh' = [w \in group |-> TRUE]
    /\ UNCHANGED <<group, comm, hold_steps, opt, param, frame, applied, last, pre,
                   before, ok_since, calls, budget, log, ctor, sched>>

\* step(closure) up to the allReduce of the overflow flag
StepCall(w) ==
    /\ frame[w].pc = "idle"
    /\ calls[w].step < budget.step
    /\ \E closure \in ClosureArgs :
        LET c0 == [Ctx(w) EXCEPT
                      !.frame.loss = closure,
                      !.frame.has_inf_or_nan = CheckOverflow(grad[w]),
                      !.applied = [p \in Params |-> NotApplied]]
        IN  \E c \in {CheckPhase(c0, grad[w])} :
                /\ Commit(w, c)
                /\ log' = [log EXCEPT ![w] = Ran(c0.applied, c)]
    /\ pre' = [pre EXCEPT ![w] = [opt |-> opt[w], param |-> param[w]]]
    /\ calls' = [calls EXCEPT ![w].step = @ + 1]
    /\ fresh' = [fresh EXCEPT ![w] = FALSE]
    /\ UNCHANGED <<group, comm, hold_steps, grad, before, budget, ctor, sched>>

RECURSIVE SumOver(_, _)
SumOver(f, S) ==
    IF S = {} THEN Zero
    ELSE LET w == CHOOSE v \in S : TRUE IN RAdd(f[w], SumOver(f, S \ {w}))

MaxOver(f, S) == CHOOSE m \in {f[w] : w \in S} : \A w \in S : f[w] <= m

\* nccl.allReduce(src, dst, op, comm): every worker of the group is in the
\* same reduction, and each gets the reduction of all contributions
AllReduce ==
    /\ comm
    /\ \E op \in {"max", "numer", "denom"} :
        /\ \A w \in group : frame[w].pc = op
        /\ frame' = [w \in group |->
              IF op = "max"
              THEN [frame[w] EXCEPT !.pc = "max_done",
                       !.has_inf_or_nan =
                           MaxOver([v \in group |-> frame[v].has_inf_or_nan], group)]
              ELSE IF op = "numer"
              THEN [frame[w] EXCEPT !.pc = "numer_done",
                       !.numer = SumOver([v \in group |-> frame[v].numer], group)]
              ELSE [frame[w] EXCEPT !.pc = "denom_done",
                       !.denom = SumOver([v \in group |-> frame[v].denom], group)]]
        /\ log' = [w \in group |->
              Append(log[w], [op |-> op, p |-> IF op = "max" THEN 0 ELSE frame[w].i])]
    /\ UNCHANGED <<group, comm, hold_steps, opt, param, grad, fresh, applied, last,
                   pre, before, ok_since, calls, budget, ctor, sched>>

\* step() goes on after an allReduce has returned
Resume(w) ==
    /\ frame[w].pc \in {"max_done", "numer_done", "denom_done"}
    /\ \E c \in {IF frame[w].pc = "max_done" THEN AfterCheck(Ctx(w), grad[w])
                  ELSE IF frame[w].pc = "numer_done" THEN AfterNumer(Ctx(w), grad[w])
                  ELSE ApplyUpdate(Ctx(w), grad[w])} :
          /\ Commit(w, c)
          /\ log' = [log EXCEPT ![w] = @ \o Ran(applied[w], c)]
    /\ UNCHANGED <<group, comm, hold_steps, grad, fresh, pre, before, calls, budget,
                   ctor, sched>>

\* lines 41-49
Rescaled(o, scale) ==
    LET delta == RDiv(scale, o.scale)
    IN  [scale |-> scale,
         steps_since_last_scale |-> 0,
         state |-> [p \in Params |->
             IF o.state[p].init
             THEN [o.state[p] EXCEPT
                      !.exp_avg = [i \in DOMAIN @ |-> RMul(@[i], delta)],
                      !.exp_avg_sq = [i \in DOMAIN @ |-> RMul(@[i], delta)]]
             ELSE o.state[p]]]

\* justify_scale entered while the step() of the same optimizer is waiting
CanRescale_InStep(w) == TRUE

\* justify_scale is a plain method, run by the one thread of its process:
\* it is entered only when that thread is not inside step()
CanRescale(w) == frame[w].pc = "idle"

\* justify_scale(scale); the division of line 41 raises when self._scale is 0
JustifyScale(w) ==
    /\ CanRescale(w)
    /\ calls[w].justify < budget.justify
    /\ \E k \in DOMAIN ScaleArgs :
        LET scale == ScaleArgs[k] IN
        /\ opt' = [opt EXCEPT ![w] =
               IF opt[w].scale = Zero THEN @ ELSE Rescaled(@, scale)]
        /\ last' = [last EXCEPT ![w] =
               [op |-> "justify_scale",
                result |-> IF opt[w].scale = Zero THEN "ZeroDivisionError" ELSE "OK",
                ret |-> "None", flag |-> 0, arg |-> scale]]
    /\ before' = [before EXCEPT ![w] = [opt |-> opt[w], param |-> param[w]]]
    /\ ok_since' = [ok_since EXCEPT ![w] = 0]
    /\ calls' = [calls EXCEPT ![w].justify = @ + 1]
    /\ UNCHANGED <<group, comm, hold_steps, param, grad, fresh, frame, applied, pre,
                   budget, log, ctor, sched>>

\* __init__(params, lr, betas, eps, weight_decay, scale, hold_steps): a call
\* that passes the tests makes the optimizer of one process; the calls that
\* follow are modelled for the configuration defaults
NewOptimizer ==
    /\ ctor.pc = "new"
    /\ ctor' = Validate(ctor)
    /\ IF ctor'.result = "ValueError"
       THEN UNCHANGED <<group, hold_steps, opt, param, grad, fresh, frame, applied,
                        last, pre, before, ok_since, calls, budget, log>>
       ELSE /\ group' = {1}
            /\ hold_steps' = ctor.hold_steps
            /\ opt' = [w \in {1} |-> Construct(ctor.scale)]
            /\ param' = [w \in {1} |-> [p \in Params |-> InitParam]]
            /\ grad' = [w \in {1} |-> [p \in Params |-> NoGrad]]
            /\ fresh' = [w \in {1} |-> FALSE]
            /\ frame' = [w \in {1} |-> IdleFrame]
            /\ applied' = [w \in {1} |-> [p \in Params |-> NotApplied]]
            /\ last' = [w \in {1} |-> NoCall]
            /\ pre' = [w \in {1} |-> [opt |-> opt'[w], param |-> param'[w]]]
            /\ before' = pre'
            /\ ok_since' = [w \in {1} |-> 0]
            /\ calls' = [w \in {1} |-> [step |-> 0, justify |-> 0]]
            /\ log' = [w \in {1} |-> <<>>]
            /\ budget' =
                  IF [lr |-> ctor.lr, betas |-> ctor.betas, eps |-> ctor.eps,
                      weight_decay |-> ctor.weight_decay] = defaults
                  THEN [step |-> InitMaxCalls, justify |-> InitMaxCalls]
                  ELSE budget
    /\ UNCHANGED <<comm, sched>>

\* a call of get_lr_warmpup(num_iter)
GetLrWarmup ==
    /\ sched.pc = "made"
    /\ \E n \in 0 .. MaxIter :
          sched' = [sched EXCEPT !.op = "get_lr_warmpup", !.num_iter = n,
                       !.lr = get_lr_warmpup(sched.start_lr, sched.warmup_iter, n)]
    /\ UNCHANGED <<group, comm, hold_steps, opt, param, grad, fresh, frame, applied,
                   last, pre, before, ok_since, calls, budget, log, ctor>>

\* a call of get_lr_decay(num_iter)
GetLrDecay ==
    /\ sched.pc = "made"
    /\ \E n \in 0 .. MaxIter :
          sched' = [sched EXCEPT !.op = "get_lr_decay", !.num_iter = n,
                       !.lr = get_lr_decay(sched.start_lr, sched.warmup_iter, n)]
    /\ UNCHANGED <<group, comm, hold_steps, opt, param, grad, fresh, frame, applied,
                   last, pre, before, ok_since, calls, budget, log, ctor>>

Next ==
    \/ Backward
    \/ \E w \in group : StepCall(w)
    \/ AllReduce
    \/ \E w \in group : Resume(w)
    \/ \E w \in group : JustifyScale(w)

\* a group trains with the scale it was constructed with
NextGroup ==
    \/ Backward
    \/ \E w \in group : StepCall(w)
    \/ AllReduce
    \/ \E w \in group : Resume(w)

Spec == Init /\ [][Next]_vars

SpecGroup == InitGroup /\ [][NextGroup]_vars

\* a reduction has returned to worker w and its step() has not gone on yet
HasReturned(w) == frame[w].pc \in {"max_done", "numer_done", "denom_done"}

\* every worker of the group has entered the same reduction
Joined == comm /\ \E op \in {"max", "numer", "denom"} : \A w \in group : frame[w].pc = op

\* every worker is a running process that calls step() as often as the
\* others, a reduction every worker has entered completes, and a worker
\* whose reduction has returned goes on.  AllReduce is enabled exactly when
\* Joined holds and Resume(w) exactly when HasReturned(w) does, and each ends
\* the condition that enables it, so their weak fairness is that the
\* condition is false again and again.
Fairness ==
    /\ \A w \in Workers : WF_vars(StepCall(w)) /\ []<>(~HasReturned(w))
    /\ []<>(~Joined)

SpecGroupFair == SpecGroup /\ Fairness

\* construction, and the calls that follow it
NextInit ==
    \/ NewOptimizer
    \/ Next

SpecInit == InitNew /\ [][NextInit]_vars

\* the calls made on a scheduler
NextSched ==
    \/ GetLrWarmup
    \/ GetLrDecay

SpecSched == InitSched /\ [][NextSched]_vars

(***************************************************************************)
(* Properties.                                                             *)
(***************************************************************************)
\* worker w is not in a call, and the call that ended last was a step()
StepEnded(w) == frame[w].pc = "idle" /\ last[w].op = "step"

\* grad[w] is what the current or last step() of w ran on
Stepped(w) == ~fresh[w] /\ calls[w].step > 0

\* nothing of w's optimizer or parameters differs from when its step() began
Unchanged(w) == opt[w] = pre[w].opt /\ param[w] = pre[w].param

Ended(w, result) == StepEnded(w) /\ Stepped(w) /\ last[w].result = result

\* C1: a step whose (reduced) overflow flag is nonzero ends in the overflow
\* failure with step counts, masters, momenta, variances, working values,
\* scale and steps_since_last_scale as they were at the call; nothing is
\* written while the flag is computed and reduced.
C1_OverflowAbortsUnchanged ==
    \A w \in group :
        /\ frame[w].pc \in {"max", "max_done"} => Unchanged(w)
        /\ StepEnded(w) /\ last[w].flag > 0 => last[w].result = "OverflowError"
        /\ StepEnded(w) /\ last[w].result = "OverflowError" => Unchanged(w)

C1_Witness ==
    \E w \in group :
        /\ comm
        /\ Ended(w, "OverflowError")
        /\ pre[w].opt.state[1].init
        /\ pre[w].opt.steps_since_last_scale > 0

\* some worker's gradients hold an inf or a NaN
AnyOverflow ==
    \E v \in group : \E p \in Params :
        /\ grad[v][p].kind # "none"
        /\ \E i \in DOMAIN grad[v][p].val : grad[v][p].val[i][2] = 0

\* C2: in a group, when some worker's gradients hold an inf or NaN every
\* worker that steps on them stays out of the update, ends with the overflow
\* failure and keeps its state; when no worker's do, no worker aborts.
C2_GroupAgreesOnOverflow ==
    \A w \in group :
        Stepped(w) =>
            /\ AnyOverflow =>
                /\ Unchanged(w)
                /\ frame[w].pc \in {"idle", "max", "max_done"}
                /\ StepEnded(w) => last[w].result = "OverflowError"
            /\ ~AnyOverflow /\ StepEnded(w) => last[w].result # "OverflowError"

C2_Witness ==
    \E v, w \in group :
        /\ v # w
        /\ \E p \in Params : \E i \in DOMAIN grad[v][p].val :
              grad[v][p].val[i][2] = 0
        /\ \A p \in Params : \A i \in DOMAIN grad[w][p].val :
              grad[w][p].val[i][2] # 0
        /\ Ended(w, "OverflowError")
        /\ Ended(v, "OverflowError")

C3_AfterOk ==
    \A w \in group :
        Ended(w, "OK") =>
            \A p \in Params :
                IF grad[w][p].kind # "none"
                THEN opt[w].state[p].step = pre[w].opt.state[p].step + 1
                ELSE opt[w].state[p] = pre[w].opt.state[p]

\* C3: after a step that returns, the step count of every parameter with a
\* gradient is one more than before and a parameter without a gradient has
\* the step count, master, momentum and variance it had; no transition
\* lowers a step count.
C3_StepCounts ==
    /\ []C3_AfterOk
    /\ [][\A w \in group : \A p \in Params :
              opt'[w].state[p].step >= opt[w].state[p].step]_vars

C3_Witness ==
    \E w \in group :
        /\ comm
        /\ Ended(w, "OK")
        /\ grad[w][1].kind = "none"
        /\ grad[w][2].kind = "dense"
        /\ pre[w].opt.state[1].init
        /\ opt[w].state[2].step = 2

\* parameter p was advanced by the current/last step() of w
Advanced(w, p) == opt[w].state[p] # pre[w].opt.state[p]

\* C4: when step() ends with the sparse-gradient failure, it is not the case
\* that some parameters with a gradient were advanced by it and others not.
C4_SparseAbortsWholeStep ==
    \A w \in group :
        Ended(w, "RuntimeError") =>
            ~ \E p, q \in Params :
                /\ grad[w][p].kind # "none"
                /\ grad[w][q].kind # "none"
                /\ Advanced(w, p)
                /\ ~Advanced(w, q)

\* the sum over the group of every worker's local partial sums for p
GroupNumer(p) == SumOver([v \in group |-> applied[v][p].lnumer], group)

GroupDenom(p) == SumOver([v \in group |-> applied[v][p].ldenom], group)

\* C5: the effective learning rate a worker applies to a parameter is that
\* of the candidate learning rate and the group's sums of numerator and
\* denominator; workers that began a step with the same state and the same
\* gradients end it with the same effective learning rates, masters and
\* working values.
C5_GroupAppliesSameLr ==
    /\ \A w \in group : \A p \in Params :
          (applied[w][p].done /\ \A v \in group : calls[v].step = calls[w].step)
              => applied[w][p].lr_eff =
                     EffectiveLr(applied[w][p].lr, GroupNumer(p), GroupDenom(p))
    /\ \A v, w \in group :
          (/\ Ended(v, "OK")
           /\ Ended(w, "OK")
           /\ calls[v].step = calls[w].step
           /\ pre[v] = pre[w]
           /\ grad[v] = grad[w])
              => /\ opt[v] = opt[w]
                 /\ param[v] = param[w]
                 /\ \A p \in Params : applied[v][p].lr_eff = applied[w][p].lr_eff

C5_Witness ==
    \E v, w \in group :
        /\ v # w
        /\ Ended(v, "OK")
        /\ Ended(w, "OK")
        /\ pre[v] = pre[w]
        /\ grad[v] = grad[w]
        /\ \E p \in Params :
              /\ applied[w][p].done
              /\ applied[w][p].lr_eff \notin {Zero, NaN}
              /\ applied[w][p].numer # applied[w][p].lnumer
              /\ param[w][p] # pre[w].param[p]

\* the hold window for parameter p in the step of w that has just returned
HoldWindow(w, p) ==
    LET st  == opt[w].state[p]
        st0 == IF pre[w].opt.state[p].init THEN pre[w].opt.state[p]
               ELSE [EmptyState EXCEPT !.param_fp32 = pre[w].param[p]]
        g   == grad[w][p].val
    IN  /\ st.step <= hold_steps =>
              /\ applied[w][p].lr = Zero
              /\ applied[w][p].lr_eff = Zero
              /\ st.param_fp32 = st0.param_fp32
              /\ param[w][p] = pre[w].param[p]
              /\ st.step = st0.step + 1
              /\ st.exp_avg =
                     NewMomentum(st0.exp_avg, g, defaults.betas[1], opt[w].scale)
              /\ st.exp_avg_sq =
                     NewVariance(st0.exp_avg_sq, g, defaults.betas[2], opt[w].scale)
        /\ st.step > hold_steps => applied[w][p].lr = defaults.lr

\* C6: in a step that returns, a parameter whose step count is at most
\* hold_steps gets candidate and effective learning rate 0 and keeps its
\* master and working value, while momentum, variance and step count
\* advance; past hold_steps the candidate learning rate is the group's lr.
C6_HoldWindow ==
    \A w \in group :
        Ended(w, "OK") =>
            \A p \in Params : grad[w][p].kind = "dense" => HoldWindow(w, p)

\* the same, for the steps taken with a scale other than 0
C6_HoldWindowNonzeroScale ==
    \A w \in group :
        (Ended(w, "OK") /\ opt[w].scale # Zero) =>
            \A p \in Params : grad[w][p].kind = "dense" => HoldWindow(w, p)

\* C7: between calls, steps_since_last_scale is the number of steps that
\* returned since the last justify_scale (or since construction).
C7_CountsSuccessfulSteps ==
    \A w \in group :
        frame[w].pc = "idle" => opt[w].steps_since_last_scale = ok_since[w]

\* C8: the scale factor is strictly positive.
C8_ScalePositive == \A w \in group : RGt(opt[w].scale, Zero)

\* what justify_scale(last.arg) is to have made of the optimizer of w
JustifyEffect(w) ==
    LET old   == before[w].opt
        delta == RDiv(last[w].arg, old.scale)
    IN  /\ opt[w].scale = last[w].arg
        /\ opt[w].steps_since_last_scale = 0
        /\ param[w] = before[w].param
        /\ \A p \in Params :
              IF old.state[p].init
              THEN /\ opt[w].state[p].init
                   /\ opt[w].state[p].step = old.state[p].step
                   /\ opt[w].state[p].param_fp32 = old.state[p].param_fp32
                   /\ \A i \in DOMAIN old.state[p].exp_avg :
                         /\ opt[w].state[p].exp_avg[i] =
                                RMul(old.state[p].exp_avg[i], delta)
                         /\ opt[w].state[p].exp_avg_sq[i] =
                                RMul(old.state[p].exp_avg_sq[i], delta)
              ELSE opt[w].state[p] = EmptyState

JustifyEnded(w) == frame[w].pc = "idle" /\ last[w].op = "justify_scale"

\* C9: justify_scale(new) sets the scale to new, multiplies momentum and
\* variance of every initialised parameter by new/old, resets
\* steps_since_last_scale, leaves step counts, masters and working values
\* alone and creates no state.
C9_JustifyScaleEffect == \A w \in group : JustifyEnded(w) => JustifyEffect(w)

\* the same, for the calls made with a scale other than 0
C9_JustifyScaleEffectNonzeroScale ==
    \A w \in group :
        (JustifyEnded(w) /\ before[w].opt.scale # Zero) => JustifyEffect(w)

\* a = k * f for some k other than 0
Multiple(a, f) == IF f = Zero THEN a = Zero ELSE a # Zero

\* the transition is the second of justify_scale(k * f), justify_scale(f)
\* by worker w, with f the scale before the first
RoundTrip(w) ==
    /\ calls'[w].justify = calls[w].justify + 1
    /\ JustifyEnded(w)
    /\ Multiple(last[w].arg, before[w].opt.scale)
    /\ last'[w].arg = before[w].opt.scale

Restored(w) ==
    /\ opt'[w].scale = before[w].opt.scale
    /\ opt'[w].steps_since_last_scale = 0
    /\ \A p \in Params :
          /\ opt'[w].state[p].exp_avg = before[w].opt.state[p].exp_avg
          /\ opt'[w].state[p].exp_avg_sq = before[w].opt.state[p].exp_avg_sq

\* C10: justify_scale(k * f) then justify_scale(f), k other than 0 and no
\* step between, restores scale, momenta and variances and leaves
\* steps_since_last_scale at 0.
C10_RescaleRoundTrip == [][\A w \in group : RoundTrip(w) => Restored(w)]_vars

\* the same, for a scale f other than 0
C10_RescaleRoundTripNonzeroScale ==
    [][\A w \in group :
          (RoundTrip(w) /\ before[w].opt.scale # Zero) => Restored(w)]_vars

\* some hyperparameter of the call is out of range
OutOfRange(a) ==
    \/ a.lr[1] < 0
    \/ a.eps[1] < 0
    \/ a.weight_decay[1] < 0
    \/ \E i \in DOMAIN a.betas : a.betas[i][1] < 0 \/ a.betas[i][1] >= a.betas[i][2]

\* the transition is a call of __init__ running to its end
Constructs == ctor.pc = "new" /\ ctor'.pc = "done"

NothingCreated == ctor'.attrs = {} /\ group' = {} /\ opt' = <<>> /\ hold_steps' = 0

AsConstructed ==
    /\ ctor'.attrs = Attrs
    /\ group' # {}
    /\ hold_steps' = ctor.hold_steps
    /\ \A w \in group' :
          /\ opt'[w].scale = ctor.scale
          /\ opt'[w].steps_since_last_scale = 0
          /\ \A p \in Params : ~opt'[w].state[p].init

\* C11: __init__ with a negative lr, eps or weight_decay, or a beta outside
\* [0,1), ends with ValueError and has created nothing; with all of them in
\* range it succeeds with steps_since_last_scale 0, the given scale and
\* hold_steps and no per-parameter state; no step() or justify_scale() ends
\* with ValueError.
C11_ConstructionValidates ==
    /\ [][Constructs =>
              IF OutOfRange(ctor)
              THEN ctor'.result = "ValueError" /\ NothingCreated
              ELSE ctor'.result = "OK" /\ AsConstructed]_vars
    /\ [](\A w \in group : last[w].result # "ValueError")

C11_Witness ==
    /\ ctor.result = "ValueError"
    /\ ctor.what = "betas[1]"
    /\ ctor.value = One
    /\ group = {}

\* the transition ends a step() of w that was given a closure, with result r
EndsWithClosure(w, r) ==
    /\ frame[w].pc # "idle"
    /\ frame[w].loss = "loss"
    /\ frame'[w].pc = "idle"
    /\ last'[w].result = r

\* C12: a step() given a closure hands the closure's result to its caller
\* both when it ends OK and when it ends with the overflow failure.
C12_ClosureResultDelivered ==
    [][\A w \in group :
          (EndsWithClosure(w, "OK") \/ EndsWithClosure(w, "OverflowError"))
              => last'[w].ret = "loss"]_vars

\* the same, for the steps that end OK
C12_ClosureResultReturned ==
    [][\A w \in group : EndsWithClosure(w, "OK") => last'[w].ret = "loss"]_vars

\* no gradient of the iteration is sparse
DenseOrNone == \A w \in group : \A p \in Params : grad[w][p].kind # "sparse"

\* worker w is in a reduction that has not returned
Blocked(w) == frame[w].pc \in {"max", "numer", "denom"}

\* the reductions among the entries of a log
Reductions(l) == SelectSeq(l, LAMBDA e : e.op \in {"max", "numer", "denom"})

IsPrefix(s, t) == Len(s) <= Len(t) /\ SubSeq(t, 1, Len(s)) = s

\* workers in the same step are in the same reduction for the same parameter,
\* and the reductions they have left are the same, one by one
Matched ==
    \A v, w \in group :
        (calls[v].step = calls[w].step /\ ~fresh[v] /\ ~fresh[w] /\ DenseOrNone) =>
            /\ (Blocked(v) /\ Blocked(w)) =>
                  frame[v].pc = frame[w].pc /\ frame[v].i = frame[w].i
            /\ \/ IsPrefix(Reductions(log[v]), Reductions(log[w]))
               \/ IsPrefix(Reductions(log[w]), Reductions(log[v]))

\* C13: when every worker calls step() as often as the others with dense
\* gradients for the same parameters, every step() ends, OK or with the
\* overflow failure, and the k-th reduction of a worker is the k-th of every
\* other, with the same operation, parameter and quantity.
C13_StepsTerminateMatched ==
    /\ []Matched
    /\ \A w \in Workers :
          (frame[w].pc # "idle" /\ DenseOrNone)
              ~> (frame[w].pc = "idle" /\ last[w].result \in {"OK", "OverflowError"})

C13_Witness ==
    /\ grad[1] # grad[2]
    /\ \A w \in group :
          /\ Ended(w, "OK")
          /\ Len(Reductions(log[w])) = 5

\* the step() of w in progress has the scale it began with, and every
\* parameter its loop has not come to is as it was when the step began
StepSeesOneScale(w) ==
    /\ opt[w].scale = pre[w].opt.scale
    /\ \A p \in Params :
          ~applied[w][p].prepared => opt[w].state[p] = pre[w].opt.state[p]

\* the transition changed the scale, or rescaled a momentum or a variance
Rescales(w) == calls'[w].justify # calls[w].justify

\* scale, momenta and variances after the transition are all of the new
\* scale, or all as they were
WholeRescale(w) ==
    LET delta == RDiv(last'[w].arg, opt[w].scale)
    IN  \/ opt'[w] = opt[w]
        \/ /\ opt'[w].scale = last'[w].arg
           /\ \A p \in Params :
                 opt[w].state[p].init =>
                     \A i \in DOMAIN opt[w].state[p].exp_avg :
                         /\ opt'[w].state[p].exp_avg[i] =
                                RMul(opt[w].state[p].exp_avg[i], delta)
                         /\ opt'[w].state[p].exp_avg_sq[i] =
                                RMul(opt[w].state[p].exp_avg_sq[i], delta)

ExistsIffCounted(w, p) ==
    /\ opt[w].state[p].init <=> opt[w].state[p].step > 0
    /\ ~opt[w].state[p].init => opt[w].state[p] = EmptyState

\* in the transition the update loop of w came to parameter p
Touches(w, p) ==
    /\ applied'[w][p].prepared
    /\ ~applied'[w][p].done
    /\ \/ calls'[w].step # calls[w].step
       \/ frame[w].pc # "idle" /\ ~applied[w][p].prepared

\* the state of p after its first touch
FirstTouch(w, p) ==
    /\ opt'[w].state[p].init
    /\ opt'[w].state[p].step = 1
    /\ opt'[w].state[p].param_fp32 = param[w][p]
    /\ \A i \in DOMAIN param[w][p] :
          /\ opt'[w].state[p].exp_avg[i] = Zero
          /\ opt'[w].state[p].exp_avg_sq[i] = Zero

\* the state of p after a later touch: kept, with the step count one up
LaterTouch(w, p) ==
    opt'[w].state[p] = [opt[w].state[p] EXCEPT !.step = @ + 1]

\* C15: between steps, after any steps and rescales however they ended,
\* master, momentum and variance of a parameter exist exactly when its step
\* count is above 0; the first touch makes master from the working value,
\* momentum and variance zero and the step count 0 before its increment;
\* state that exists is never made again or dropped.
C15_LazyInit ==
    /\ [](\A w \in group : \A p \in Params :
              frame[w].pc = "idle" => ExistsIffCounted(w, p))
    /\ [][\A w \in group : \A p \in Params :
              /\ opt[w].state[p].init => opt'[w].state[p].init
              /\ (~opt[w].state[p].init /\ opt'[w].state[p].init) => Touches(w, p)
              /\ Touches(w, p) =>
                    IF opt[w].state[p].init THEN LaterTouch(w, p)
                    ELSE FirstTouch(w, p)]_vars

C15_Witness ==
    \E w \in group :
        /\ Ended(w, "RuntimeError")
        /\ calls[w].justify > 0
        /\ opt[w].state[1].step = 2
        /\ opt[w].state[1].exp_avg # <<Zero, Zero>>
        /\ ~opt[w].state[2].init

MaxReduced == [op |-> "max", p |-> 0]

\* prepare, the two reductions and apply, for parameter p
ForParam(p) ==
    <<[op |-> "prepare", p |-> p], [op |-> "numer", p |-> p],
      [op |-> "denom", p |-> p], [op |-> "apply", p |-> p]>>

\* the same for every parameter of w with a gradient, from i on in group order
RECURSIVE UpdatesFrom(_, _)
UpdatesFrom(w, i) ==
    IF i \notin Params THEN <<>>
    ELSE (IF grad[w][i].kind # "none" THEN ForParam(i) ELSE <<>>)
         \o UpdatesFrom(w, i + 1)

Count(l, op) == Len(SelectSeq(l, LAMBDA e : e.op = op))

\* what the step of w runs when it is preceded by n MAX reductions: at any
\* time a part of MAX and the updates, to the end when it returns, and
\* the MAX alone when it aborts
RunsAfterMax(w, n) ==
    LET first == IF n = 1 THEN <<MaxReduced>> ELSE <<>>
    IN  /\ IsPrefix(log[w], first \o UpdatesFrom(w, 1))
        /\ StepEnded(w) => Count(log[w], "max") = n
        /\ Ended(w, "OverflowError") => log[w] = first
        /\ Ended(w, "OK") => log[w] = first \o UpdatesFrom(w, 1)

\* C16: every step attempt makes exactly one MAX reduction, before any
\* parameter is touched; an aborted step makes no SUM reduction; a step
\* that returns runs, for each parameter with a gradient in group order,
\* prepare, SUM of numer, SUM of denom, apply, and nothing else.
C16_ReductionsPerStep ==
    \A w \in group : Stepped(w) => RunsAfterMax(w, 1)

\* C16 as amended: the same, with the one MAX reduction made when a
\* communicator is configured and none when it is not.
C16_ReductionsPerStepOfGroup ==
    \A w \in group : Stepped(w) => RunsAfterMax(w, IF comm THEN 1 ELSE 0)

C16_Witness ==
    \E w \in group :
        /\ Ended(w, "OK")
        /\ Len(log[w]) = 9
        /\ calls[w].step = 2

\* every gradient of every worker is dense and finite
AllFiniteDense ==
    \A v \in group : \A p \in Params :
        /\ grad[v][p].kind = "dense"
        /\ \A i \in DOMAIN grad[v][p].val : grad[v][p].val[i][2] # 0

Checking(w) == frame[w].pc \in {"max", "max_done"}

Updating(w) == frame[w].pc \in {"numer", "numer_done", "denom", "denom_done"}

\* the step of w that has ended went by the gradients it was called with
DecidedAfresh(w) ==
    /\ AllFiniteDense => last[w].result = "OK"
    /\ AnyOverflow => last[w].result = "OverflowError"

\* IDLE -> CHECKING -> (ABORTED | UPDATING) -> IDLE
Orchestrated(w) ==
    /\ (Checking(w)' /\ ~Checking(w)) => frame[w].pc = "idle"
    /\ (Checking(w) /\ ~Checking(w)') => frame'[w].pc = "idle" \/ Updating(w)'
    /\ (Updating(w)' /\ ~Updating(w)) => frame[w].pc = "max_done"
    /\ (Updating(w) /\ ~Updating(w)') => frame'[w].pc = "idle"

\* C17: a step goes IDLE, CHECKING, then ABORTED or UPDATING, then IDLE, and
\* decides on the gradients it is called with: after any steps, aborted or
\* not, a step with only finite dense gradients ends OK and a step with an
\* overflow aborts.
C17_DecidesAfresh ==
    /\ [](\A w \in group : Ended(w, last[w].result) => DecidedAfresh(w))
    /\ [][\A w \in group : Orchestrated(w)]_vars

\* the same, for the runs with a communicator
C17_DecidesAfreshWithComm ==
    /\ [](\A w \in group : (comm /\ Ended(w, last[w].result)) => DecidedAfresh(w))
    /\ [][\A w \in group : Orchestrated(w)]_vars

\* a step with finite dense gradients that returned after one that aborted
C17_AfterAbort ==
    \E w \in group :
        /\ Ended(w, "OK")
        /\ AllFiniteDense
        /\ calls[w].step = 2
        /\ opt[w].steps_since_last_scale = 1
        /\ calls[w].justify = 0

\* every gradient w has is dense and finite
FiniteDenseOrNone(w) ==
    \A p \in Params :
        \/ grad[w][p].kind = "none"
        \/ /\ grad[w][p].kind = "dense"
           /\ \A i \in DOMAIN grad[w][p].val : grad[w][p].val[i][2] # 0

\* C18: without a communicator, a step() with finite dense gradients ends
\* OK with the step count of every parameter with a gradient and
\* steps_since_last_scale one up; it does not fail part-way.
C18_NoCommStepCompletes ==
    \A w \in group :
        (~comm /\ Ended(w, last[w].result) /\ FiniteDenseOrNone(w)) =>
            /\ last[w].result = "OK"
            /\ opt[w].steps_since_last_scale = pre[w].opt.steps_since_last_scale + 1
            /\ \A p \in Params :
                  grad[w][p].kind # "none" =>
                      opt[w].state[p].step = pre[w].opt.state[p].step + 1

\* some element of some gradient of w is inf or NaN
LocalOverflow(w) ==
    \E p \in Params :
        /\ grad[w][p].kind # "none"
        /\ \E i \in DOMAIN grad[w][p].val : grad[w][p].val[i][2] = 0

\* the flag of w before it is reduced
LocalFlag(w) ==
    /\ frame[w].has_inf_or_nan = IF LocalOverflow(w) THEN 1 ELSE 0
    /\ CheckFrom(grad[w], 1, frame[w].has_inf_or_nan) = frame[w].has_inf_or_nan
    /\ Unchanged(w)

\* C19: the flag a step computes from its own gradients is set exactly when
\* an element of a gradient of a parameter that has one is inf or NaN; the
\* scan changes no gradient and no state, and a second scan of the same
\* gradients leaves the flag as it is.
C19_LocalFlag ==
    /\ [](\A w \in group : frame[w].pc = "max" => LocalFlag(w))
    /\ [][\A w \in group : calls'[w].step # calls[w].step => grad' = grad]_vars

C19_Witness ==
    \E v, w \in group :
        /\ frame[v].pc = "max"
        /\ frame[w].pc = "max"
        /\ grad[v][1].kind = "none"
        /\ frame[v].has_inf_or_nan = 1
        /\ frame[w].has_inf_or_nan = 0

\* the call that ended last was get_lr_warmpup within the warmup
InWarmup == sched.op = "get_lr_warmpup" /\ sched.num_iter <= sched.warmup_iter

\* the ramp: 0 at iteration 0, not below the iteration before, never above
\* start_lr, and start_lr at the end of the warmup
Ramp ==
    /\ sched.num_iter = 0 => sched.lr = Zero
    /\ sched.num_iter > 0 =>
          RGe(sched.lr,
              get_lr_warmpup(sched.start_lr, sched.warmup_iter, sched.num_iter - 1))
    /\ RGe(sched.start_lr, sched.lr)
    /\ sched.num_iter = sched.warmup_iter => sched.lr = sched.start_lr

\* every multiple of start_lr up to the warmup_iter-th is a float
ExactProducts ==
    \A n \in 0 .. sched.warmup_iter :
        Float(RMul(sched.start_lr, Rat(n, 1))) = RMul(sched.start_lr, Rat(n, 1))

\* C20: get_lr_warmpup is a ramp from 0 at iteration 0 to start_lr at
\* iteration warmup_iter, non-decreasing and never above start_lr, and
\* get_lr_decay is start_lr at every iteration, so that the two agree at
\* the end of the warmup.
C20_WarmupRamp ==
    /\ InWarmup => Ramp
    /\ sched.op = "get_lr_decay" => sched.lr = sched.start_lr

\* the same, for a start_lr whose multiples are floats
C20_WarmupRampExactProducts ==
    /\ (InWarmup /\ ExactProducts) => Ramp
    /\ sched.op = "get_lr_decay" => sched.lr = sched.start_lr

====
